---- MODULE Spec2Model ----
(***************************************************************************)
(* Streaming job creation and replacement controller                       *)
(* (src/meta/src/rpc/ddl_controller_v2.rs).                                *)
(*                                                                         *)
(* Every request is an asynchronous task; pc[r] names the await the task   *)
(* is suspended at, and one action completes that await and runs the       *)
(* synchronous code up to the next await (or to the return).               *)
(***************************************************************************)
EXTENDS Integers, Sequences, FiniteSets, TLC

\* ---------------------------------------------------------------- bounds
NumReqs == 2
NumPermits == 1
\* Request slots that receive a request under SpecActive.
NumActive == 1

Reqs == 1..NumReqs

\* ------------------------------------------------------------- constants
IGNORED_NOTIFICATION_VERSION == 0

CreateTypes == {"Unspecified", "Foreground", "Background"}

\* StreamingJob: the tagged variant with the payload fields the controller
\* dispatches on.  src: Table(Some(source), ..); cdc: TableJobType is
\* SharedCdcSource; target: Sink(_, Some(target_table)).  MaterializedView
\* is the variant that takes the `_` arm of every match.
NoJob ==
  [variant |-> "None", src |-> FALSE, cdc |-> FALSE, target |-> FALSE,
   create_type |-> "Unspecified"]

StreamingJob ==
  { [variant |-> v, src |-> s, cdc |-> c, target |-> t, create_type |-> ct] :
      v \in {"Table", "Source", "Sink", "MaterializedView"},
      s \in BOOLEAN, c \in BOOLEAN, t \in BOOLEAN, ct \in CreateTypes }

\* Payload fields exist only on the variant that carries them.
WellFormedJob(j) ==
  /\ (j.src \/ j.cdc) => j.variant = "Table"
  /\ j.target => j.variant = "Sink"

CreateJobs == { j \in StreamingJob : WellFormedJob(j) }

\* replace_table_v2 is only called with Table jobs (line 219).
ReplaceJobs ==
  { j \in CreateJobs : j.variant = "Table" /\ j.create_type = "Foreground" }

\* The job descriptions the frontend submits under a workload: any job, or
\* only Tables with an attached source (Foreground and Background), the
\* jobs that take every step of the controller.
JobsOf(workload) ==
  IF workload = "any" THEN CreateJobs
  ELSE { j \in CreateJobs :
           j.variant = "Table" /\ j.src /\ ~j.cdc
             /\ j.create_type \in {"Foreground", "Background"} }

NoRet == [tag |-> "none", ver |-> IGNORED_NOTIFICATION_VERSION, err |-> ""]
RetOk(v) == [tag |-> "ok", ver |-> v, err |-> ""]
RetErr(e) == [tag |-> "err", ver |-> IGNORED_NOTIFICATION_VERSION, err |-> e]
RetPanic == [tag |-> "panic", ver |-> IGNORED_NOTIFICATION_VERSION, err |-> ""]

VARIABLES
  pc,            \* pc[r]: the await request r is suspended at
  op,            \* op[r]: "none" | "create" | "replace"
  job,           \* job[r]: the StreamingJob of the request
  err,           \* err[r]: the error held by the Err(err) arm, "" if none
  ret,           \* ret[r]: what the request returned to its caller
  log,           \* log[r]: collaborator calls completed for r's job, in order
  cat,           \* cat[r]: catalog row of r's job id (dummy id for replace)
  registered,    \* source ids registered at the connector node
  version,       \* the catalog's notification version counter
  commitVersion, \* commitVersion[r]: the version the commit of r's job returned
  permits,       \* creating_streaming_job_permits.semaphore: free permits
  permitHeld,    \* requests holding a _permit guard
  readers,       \* requests holding a reschedule_lock read guard
  writer,        \* reschedule_lock is write-locked
  resched,       \* the rescheduler: "idle" | "waiting" | "writing"
  bg,            \* bg[r]: the detached future of a Background create
  live,          \* live[r]: the live table a replace request r targets
  rep,           \* rep[r]: dummy id, merge updates and call arguments of r
  menu,          \* which job descriptions the frontend submits
  \* DataChunk row iteration (data_chunk_iter.rs)
  chunk,         \* the DataChunk iterated
  idx,           \* DataChunkRefIter.idx
  yielded,       \* row indexes returned by next() as Some, in order
  ended,         \* next() has returned None
  \* Row encoding (data_chunk_iter.rs)
  row,           \* the Row encoded
  schema,        \* RowDeserializer.schema
  data,          \* the bytes handed to the deserializer
  result         \* what serialize / deserialize returned

ddlVars ==
  <<pc, op, job, err, ret, log, cat, registered, version, commitVersion,
    permits, permitHeld, readers, writer, resched, bg, live, rep, menu>>

chunkVars == <<chunk, idx, yielded, ended>>

rowVars == <<row, schema, data, result>>

vars == <<ddlVars, chunkVars, rowVars>>

\* What no step of the controller touches: the workload and the row data.
fixedVars == <<menu, chunkVars, rowVars>>

Ev(call, res) == <<call, res>>

Logged(r, call, res) == log' = [log EXCEPT ![r] = Append(@, Ev(call, res))]

\* A call completes and the synchronous step after it is done.
LoggedThen(r, call, step) ==
  log' = [log EXCEPT ![r] = @ \o <<Ev(call, "ok"), Ev(step, "ok")>>]

Res(ok) == IF ok THEN "ok" ELSE "err"

\* Line 206: job_id = streaming_job.id(), the id of the live table; lines
\* 222-225: the dummy id the catalog hands out is a fresh one.
JobId(r) == r
DummyId(r) == NumReqs + r

\* A replace request before its dummy id and merge updates exist: no id is 0.
NoRep ==
  [dummy |-> 0, merge |-> "none", finish_id |-> 0, finish_merge |-> "none",
   abort_id |-> 0]

\* ------------------------------------------------------------ row data
\* The values of the DataChunk and Row variables while only the controller
\* is observed.
NoChunk == [capacity |-> 0, rows |-> <<>>]
NoResult ==
  [stage |-> "none", from |-> "none", ok |-> FALSE, row |-> <<>>, err |-> "",
   byte |-> 0]

NoIter ==
  /\ chunk = NoChunk
  /\ idx = 0
  /\ yielded = <<>>
  /\ ended = FALSE

NoRow ==
  /\ row = <<>>
  /\ schema = <<>>
  /\ data = <<>>
  /\ result = NoResult

NoData == NoIter /\ NoRow

\* The controller when no request has arrived; slots in `arriving` will
\* receive one.
Controller(arriving) ==
  /\ pc = [r \in Reqs |-> IF r \in arriving THEN "idle" ELSE "absent"]
  /\ op = [r \in Reqs |-> "none"]
  /\ job = [r \in Reqs |-> NoJob]
  /\ err = [r \in Reqs |-> ""]
  /\ ret = [r \in Reqs |-> NoRet]
  /\ log = [r \in Reqs |-> <<>>]
  /\ cat = [r \in Reqs |-> "none"]
  /\ registered = {}
  /\ version = IGNORED_NOTIFICATION_VERSION
  /\ commitVersion = [r \in Reqs |-> IGNORED_NOTIFICATION_VERSION]
  /\ permits = NumPermits
  /\ permitHeld = {}
  /\ readers = {}
  /\ writer = FALSE
  /\ resched = "idle"
  /\ bg = [r \in Reqs |-> "none"]
  /\ live = [r \in Reqs |-> "untouched"]
  /\ rep = [r \in Reqs |-> NoRep]

InitWith(arriving) == Controller(arriving) /\ NoData

Init == InitWith(Reqs) /\ menu = "any"

\* The workload of the per-request properties: requests arrive on the first
\* NumActive slots only, next to the rescheduler and the detached futures.
InitActive == InitWith(1..NumActive) /\ menu = "any"

\* ------------------------------------------------------------ helpers

\* Mutant of HasSource: the pattern forgets the source embedded in a Table.
HasSourceStandaloneOnly(j) == j.variant = "Source"

\* StreamingJob::Table(Some(src), _, _) | StreamingJob::Source(src)
\* (the pattern of line 96; the same jobs reach register_source).
HasSource(j) ==
  \/ j.variant = "Table" /\ j.src
  \/ j.variant = "Source"

\* src.id of the source a job carries: allocated with the job id by
\* create_job_catalog, one per request.
SourceId(r) == r

\* The arm of the match of lines 133-153 the job takes, first match wins.
ValidationArm(j) ==
  IF j.variant = "Table" /\ ~j.src /\ j.cdc THEN "validate_cdc_table"
  ELSE IF j.variant = "Table" /\ j.src THEN "register_source"
  ELSE IF j.variant = "Sink" THEN
    (IF j.target THEN "unimplemented" ELSE "validate_sink")
  ELSE IF j.variant = "Source" THEN "register_source"
  ELSE "none"

\* Lines 50-66: the arms of the match that write ids into the fragment
\* graph, fill_table_stream_graph_info for a Table and source_id for a Source.
PropagatesSourceId(j) == j.variant \in {"Table", "Source"}

\* Mutant of ForkTarget: Unspecified is detached like Background.
ForkTargetUnspecifiedDetached(create_type) ==
  IF create_type = "Foreground" THEN "create_streaming_job" ELSE "spawn"

\* Lines 161-172: the match on streaming_job.create_type(): where the
\* request goes after a successful prepare.
ForkTarget(create_type) ==
  IF create_type \in {"Unspecified", "Foreground"}
    THEN "create_streaming_job" ELSE "spawn"

\* Mutant of BgAfterActivate: the commit does not look at the result.
BgAlwaysFinish(ok) == "finish_streaming_job"

\* Line 182: `if result.is_ok()`: the detached future commits only after a
\* successful activation, and ends otherwise.
BgAfterActivate(ok) == IF ok THEN "finish_streaming_job" ELSE "done"

\* The guards dropped with the read guard leaked.
DropGuardsKeepRead(r) ==
  /\ permits' = IF r \in permitHeld THEN permits + 1 ELSE permits
  /\ permitHeld' = permitHeld \ {r}
  /\ readers' = readers

\* The guards dropped with the permit forgotten (never given back).
DropGuardsForgetPermit(r) ==
  /\ permits' = permits
  /\ permitHeld' = permitHeld \ {r}
  /\ readers' = readers \ {r}

\* Dropping the guards `_permit` and `_reschedule_job_lock` when the request
\* function is left (by return, by `?` or by unwinding).
DropGuards(r) ==
  /\ permits' = IF r \in permitHeld THEN permits + 1 ELSE permits
  /\ permitHeld' = permitHeld \ {r}
  /\ readers' = readers \ {r}

\* The request function returns `value` to its caller.
Return(r, value) ==
  /\ ret' = [ret EXCEPT ![r] = value]
  /\ pc' = [pc EXCEPT ![r] = "done"]
  /\ DropGuards(r)

\* The inner creation attempt ended with Err(e): control is in the Err(err)
\* arm of create_streaming_job_v2 and calls try_abort_creating_streaming_job.
InnerFails(r, e) ==
  /\ err' = [err EXCEPT ![r] = e]
  /\ pc' = [pc EXCEPT ![r] = "try_abort_creating_streaming_job"]

\* ------------------------------------------------- create_streaming_job_v2

\* A create request arrives with its job description.
StartCreate(r, j) ==
  /\ pc[r] = "idle"
  /\ j \in JobsOf(menu)
  /\ pc' = [pc EXCEPT ![r] = "create_job_catalog"]
  /\ op' = [op EXCEPT ![r] = "create"]
  /\ job' = [job EXCEPT ![r] = j]
  /\ UNCHANGED <<err, ret, log, cat, registered, version, commitVersion,
                 permits, permitHeld, readers, writer, resched, bg>>
  /\ UNCHANGED <<live, rep, fixedVars>>

\* Lines 45-72: create_job_catalog(..).await?, then the synchronous source-id
\* propagation into the graph, up to the semaphore acquire.
CreateJobCatalog(r, ok) ==
  /\ pc[r] = "create_job_catalog"
  /\ IF ok
       THEN /\ IF PropagatesSourceId(job[r])
                 THEN LoggedThen(r, "create_job_catalog",
                                 "source_id_propagation")
                 ELSE Logged(r, "create_job_catalog", "ok")
            /\ cat' = [cat EXCEPT ![r] = "pending"]
            /\ pc' = [pc EXCEPT ![r] = "acquire_permit"]
            /\ UNCHANGED <<ret, permits, permitHeld, readers>>
       ELSE /\ Logged(r, "create_job_catalog", "err")
            /\ Return(r, RetErr("create_job_catalog"))
            /\ UNCHANGED cat
  /\ UNCHANGED <<op, job, err, registered, version, commitVersion, writer,
                 resched, bg>>
  /\ UNCHANGED <<live, rep, fixedVars>>

\* Lines 73-78: semaphore.acquire().await.
AcquirePermit(r) ==
  /\ pc[r] = "acquire_permit"
  /\ permits > 0
  /\ permits' = permits - 1
  /\ permitHeld' = permitHeld \cup {r}
  /\ pc' = [pc EXCEPT ![r] = "reschedule_lock_read"]
  /\ Logged(r, "acquire_permit", "ok")
  /\ UNCHANGED <<op, job, err, ret, cat, registered, version,
                 commitVersion, readers, writer, resched, bg>>
  /\ UNCHANGED <<live, rep, fixedVars>>

\* Line 79 without the guard taken: the request goes on unprotected.
AcquireReadSkipped(r) ==
  /\ pc[r] = "reschedule_lock_read"
  /\ pc' = [pc EXCEPT ![r] = "StreamFragmentGraph_new"]
  /\ Logged(r, "reschedule_lock_read", "ok")
  /\ UNCHANGED <<op, job, err, ret, cat, registered, version, commitVersion,
                 permits, permitHeld, readers, writer, resched, bg>>
  /\ UNCHANGED <<live, rep, fixedVars>>

\* Line 79: reschedule_lock.read().await.
AcquireRead(r) ==
  /\ pc[r] = "reschedule_lock_read"
  /\ ~writer
  /\ readers' = readers \cup {r}
  /\ pc' = [pc EXCEPT ![r] = "StreamFragmentGraph_new"]
  /\ Logged(r, "reschedule_lock_read", "ok")
  /\ UNCHANGED <<op, job, err, ret, cat, registered, version,
                 commitVersion, permits, permitHeld, writer, resched, bg>>
  /\ UNCHANGED <<live, rep, fixedVars>>

\* -------------------------------------------- create_streaming_job_inner_v2

\* The graph built and the internal table catalog step left out.
BuildGraphSkipInternal(r, ok) ==
  /\ pc[r] = "StreamFragmentGraph_new"
  /\ op[r] = "create"
  /\ Logged(r, "StreamFragmentGraph_new", Res(ok))
  /\ IF ok
       THEN /\ pc' = [pc EXCEPT ![r] = "build_stream_job"]
            /\ UNCHANGED err
       ELSE /\ err' = [err EXCEPT ![r] = "StreamFragmentGraph_new"]
            /\ pc' = [pc EXCEPT ![r] = "try_abort_creating_streaming_job"]
  /\ UNCHANGED <<op, job, ret, cat, registered, version, commitVersion,
                 permits, permitHeld, readers, writer, resched, bg>>
  /\ UNCHANGED <<live, rep, fixedVars>>

\* Lines 114-117: StreamFragmentGraph::new(..).await?.
BuildGraph(r, ok) ==
  /\ pc[r] = "StreamFragmentGraph_new"
  /\ op[r] = "create"
  /\ Logged(r, "StreamFragmentGraph_new", Res(ok))
  /\ IF ok
       THEN /\ pc' = [pc EXCEPT ![r] = "create_internal_table_catalog"]
            /\ UNCHANGED err
       ELSE InnerFails(r, "StreamFragmentGraph_new")
  /\ UNCHANGED <<op, job, ret, cat, registered, version, commitVersion,
                 permits, permitHeld, readers, writer, resched, bg>>
  /\ UNCHANGED <<live, rep, fixedVars>>

\* Lines 120-125: create_internal_table_catalog(..).await?, then the refill.
CreateInternalTableCatalog(r, ok) ==
  /\ pc[r] = "create_internal_table_catalog"
  /\ IF ok
       THEN /\ LoggedThen(r, "create_internal_table_catalog",
                          "refill_internal_table_ids")
            /\ pc' = [pc EXCEPT ![r] = "build_stream_job"]
            /\ UNCHANGED err
       ELSE /\ Logged(r, "create_internal_table_catalog", "err")
            /\ InnerFails(r, "create_internal_table_catalog")
  /\ UNCHANGED <<op, job, ret, cat, registered, version, commitVersion,
                 permits, permitHeld, readers, writer, resched, bg>>
  /\ UNCHANGED <<live, rep, fixedVars>>

\* Lines 128-144: build_stream_job(..).await?, then the synchronous dispatch
\* of the match on the job up to the arm's await.  A Sink with a target table
\* reaches unimplemented!(): the task panics and unwinding drops the guards.
BuildStreamJob(r, ok) ==
  /\ pc[r] = "build_stream_job"
  /\ Logged(r, "build_stream_job", Res(ok))
  /\ IF ~ok
       THEN /\ InnerFails(r, "build_stream_job")
            /\ UNCHANGED <<ret, permits, permitHeld, readers>>
       ELSE IF ValidationArm(job[r]) = "unimplemented"
         THEN /\ Return(r, RetPanic)
              /\ UNCHANGED err
         ELSE /\ pc' = [pc EXCEPT ![r] =
                   IF ValidationArm(job[r]) = "none"
                     THEN "prepare_streaming_job"
                     ELSE ValidationArm(job[r])]
              /\ UNCHANGED <<err, ret, permits, permitHeld, readers>>
  /\ UNCHANGED <<op, job, cat, registered, version, commitVersion, writer,
                 resched, bg>>
  /\ UNCHANGED <<live, rep, fixedVars>>

\* Lines 135, 139, 146, 150: the await of the arm taken:
\* validate_cdc_table(..).await?, register_source(..).await? or
\* validate_sink(..).await?.
Validate(r, ok) ==
  /\ pc[r] \in {"validate_cdc_table", "register_source", "validate_sink"}
  /\ Logged(r, pc[r], Res(ok))
  /\ registered' = IF pc[r] = "register_source" /\ ok
                     THEN registered \cup {SourceId(r)} ELSE registered
  /\ IF ok
       THEN /\ pc' = [pc EXCEPT ![r] = "prepare_streaming_job"]
            /\ UNCHANGED err
       ELSE InnerFails(r, pc[r])
  /\ UNCHANGED <<op, job, ret, cat, version, commitVersion, permits,
                 permitHeld, readers, writer, resched, bg>>
  /\ UNCHANGED <<live, rep, fixedVars>>

\* Lines 155-162: prepare_streaming_job(.., false).await?, then the match on
\* create_type() up to the arm's first await (Foreground) or spawn.
Prepare(r, ok) ==
  /\ pc[r] = "prepare_streaming_job"
  /\ Logged(r, "prepare_streaming_job", Res(ok))
  /\ IF ok
       THEN /\ cat' = [cat EXCEPT ![r] = "creating"]
            /\ pc' = [pc EXCEPT ![r] = ForkTarget(job[r].create_type)]
            /\ UNCHANGED err
       ELSE /\ InnerFails(r, "prepare_streaming_job")
            /\ UNCHANGED cat
  /\ UNCHANGED <<op, job, ret, registered, version, commitVersion, permits,
                 permitHeld, readers, writer, resched, bg>>
  /\ UNCHANGED <<live, rep, fixedVars>>

\* Mutant of Activate: the activation result is not propagated by `?`.
ActivateUnchecked(r, ok) ==
  /\ pc[r] = "create_streaming_job"
  /\ Logged(r, "create_streaming_job", Res(ok))
  /\ pc' = [pc EXCEPT ![r] = "finish_streaming_job"]
  /\ UNCHANGED <<op, job, err, ret, cat, registered, version, commitVersion,
                 permits, permitHeld, readers, writer, resched, bg>>
  /\ UNCHANGED <<live, rep, fixedVars>>

\* Lines 163-165: stream_manager.create_streaming_job(..).await? (Foreground).
Activate(r, ok) ==
  /\ pc[r] = "create_streaming_job"
  /\ Logged(r, "create_streaming_job", Res(ok))
  /\ IF ok
       THEN /\ pc' = [pc EXCEPT ![r] = "finish_streaming_job"]
            /\ UNCHANGED err
       ELSE InnerFails(r, "create_streaming_job")
  /\ UNCHANGED <<op, job, ret, cat, registered, version, commitVersion,
                 permits, permitHeld, readers, writer, resched, bg>>
  /\ UNCHANGED <<live, rep, fixedVars>>

\* Lines 166-170 and 86: finish_streaming_job(..).await?; Ok(version) is
\* returned through create_streaming_job_v2 and the guards are dropped.
Finish(r, ok) ==
  /\ pc[r] = "finish_streaming_job"
  /\ Logged(r, "finish_streaming_job", Res(ok))
  /\ IF ok
       THEN /\ version' = version + 1
            /\ commitVersion' = [commitVersion EXCEPT ![r] = version + 1]
            /\ cat' = [cat EXCEPT ![r] = "committed"]
            /\ Return(r, RetOk(version + 1))
            /\ UNCHANGED err
       ELSE /\ InnerFails(r, "finish_streaming_job")
            /\ UNCHANGED <<version, commitVersion, cat, ret, permits,
                           permitHeld, readers>>
  /\ UNCHANGED <<op, job, registered, writer, resched, bg>>
  /\ UNCHANGED <<live, rep, fixedVars>>

\* Lines 172-193 and 86: the future is handed to tokio::spawn, the request
\* returns Ok(IGNORED_NOTIFICATION_VERSION) and its guards are dropped.  The
\* future owns clones of the controller and the manager, and no guard.
SpawnBackground(r) ==
  /\ pc[r] = "spawn"
  /\ bg' = [bg EXCEPT ![r] = "create_streaming_job"]
  /\ Return(r, RetOk(IGNORED_NOTIFICATION_VERSION))
  /\ UNCHANGED <<op, job, err, log, cat, registered, version, commitVersion,
                 writer, resched>>
  /\ UNCHANGED <<live, rep, fixedVars>>

\* Lines 176-182: the detached future's create_streaming_job(..).await; an
\* error is logged by inspect_err and the future ends.
BgActivate(r, ok) ==
  /\ bg[r] = "create_streaming_job"
  /\ Logged(r, "bg_create_streaming_job", Res(ok))
  /\ bg' = [bg EXCEPT ![r] = BgAfterActivate(ok)]
  /\ UNCHANGED <<pc, op, job, err, ret, cat, registered, version,
                 commitVersion, permits, permitHeld, readers, writer,
                 resched>>
  /\ UNCHANGED <<live, rep, fixedVars>>

\* Lines 183-189: the detached future's finish_streaming_job(..).await; the
\* result is discarded (`let _ =`), an error is logged.
BgFinish(r, ok) ==
  /\ bg[r] = "finish_streaming_job"
  /\ Logged(r, "bg_finish_streaming_job", Res(ok))
  /\ bg' = [bg EXCEPT ![r] = "done"]
  /\ version' = IF ok THEN version + 1 ELSE version
  /\ commitVersion' =
       [commitVersion EXCEPT ![r] = IF ok THEN version + 1 ELSE @]
  /\ cat' = [cat EXCEPT ![r] = IF ok THEN "committed" ELSE @]
  /\ UNCHANGED <<pc, op, job, err, ret, registered, permits, permitHeld,
                 readers, writer, resched>>
  /\ UNCHANGED <<live, rep, fixedVars>>

\* Lines 87-103: try_abort_creating_streaming_job(job_id).await?.  An Err is
\* propagated by `?`; Ok(true) with a source-carrying job goes on to
\* unregister_sources; otherwise Err(err) is returned.
TryAbortCreating(r, res) ==
  /\ pc[r] = "try_abort_creating_streaming_job"
  /\ Logged(r, "try_abort_creating_streaming_job", res)
  /\ cat' = [cat EXCEPT ![r] = IF res = "true" THEN "aborted" ELSE @]
  /\ IF res = "err"
       THEN Return(r, RetErr("try_abort_creating_streaming_job"))
       ELSE IF res = "true" /\ HasSource(job[r])
         THEN /\ pc' = [pc EXCEPT ![r] = "unregister_sources"]
              /\ UNCHANGED <<ret, permits, permitHeld, readers>>
         ELSE Return(r, RetErr(err[r]))
  /\ UNCHANGED <<op, job, err, registered, version, commitVersion, writer,
                 resched, bg>>
  /\ UNCHANGED <<live, rep, fixedVars>>

\* Lines 97 and 102: unregister_sources(vec![src.id]).await, then Err(err).
UnregisterSources(r) ==
  /\ pc[r] = "unregister_sources"
  /\ Logged(r, "unregister_sources", "ok")
  /\ registered' = registered \ {SourceId(r)}
  /\ Return(r, RetErr(err[r]))
  /\ UNCHANGED <<op, job, err, cat, version, commitVersion, writer, resched,
                 bg>>
  /\ UNCHANGED <<live, rep, fixedVars>>

\* --------------------------------------------------------- replace_table_v2

\* A replace request that queues for an admission permit like a create.
StartReplaceAdmitted(r, j) ==
  /\ pc[r] = "idle"
  /\ j \in JobsOf(menu)
  /\ pc' = [pc EXCEPT ![r] = "acquire_permit"]
  /\ op' = [op EXCEPT ![r] = "replace"]
  /\ job' = [job EXCEPT ![r] = j]
  /\ UNCHANGED <<err, ret, log, cat, registered, version, commitVersion,
                 permits, permitHeld, readers, writer, resched, bg>>
  /\ UNCHANGED <<live, rep, fixedVars>>

\* A replace request arrives with its Table job.
StartReplace(r, j) ==
  /\ pc[r] = "idle"
  /\ j \in JobsOf(menu)
  /\ pc' = [pc EXCEPT ![r] = "r_reschedule_lock_read"]
  /\ op' = [op EXCEPT ![r] = "replace"]
  /\ job' = [job EXCEPT ![r] = j]
  /\ UNCHANGED <<err, ret, log, cat, registered, version, commitVersion,
                 permits, permitHeld, readers, writer, resched, bg>>
  /\ UNCHANGED <<live, rep, fixedVars>>

\* Line 209: reschedule_lock.read().await.
ReplaceAcquireRead(r) ==
  /\ pc[r] = "r_reschedule_lock_read"
  /\ ~writer
  /\ readers' = readers \cup {r}
  /\ pc' = [pc EXCEPT ![r] = "r_StreamFragmentGraph_new"]
  /\ Logged(r, "reschedule_lock_read", "ok")
  /\ UNCHANGED <<op, job, err, ret, cat, registered, version,
                 commitVersion, permits, permitHeld, writer, resched, bg>>
  /\ UNCHANGED <<live, rep, fixedVars>>

\* Lines 213-224: StreamFragmentGraph::new(..).await?, then synchronously
\* table.get_version()?; res is "ok", "err" (the graph) or "no_version".
ReplaceBuildGraph(r, res) ==
  /\ pc[r] = "r_StreamFragmentGraph_new"
  /\ Logged(r, "StreamFragmentGraph_new", IF res = "err" THEN "err" ELSE "ok")
  /\ IF res = "ok"
       THEN /\ pc' = [pc EXCEPT ![r] = "create_job_catalog_for_replace"]
            /\ UNCHANGED <<ret, permits, permitHeld, readers>>
       ELSE Return(r, RetErr(IF res = "err" THEN "StreamFragmentGraph_new"
                                           ELSE "get_version"))
  /\ UNCHANGED <<op, job, err, cat, registered, version, commitVersion,
                 writer, resched, bg>>
  /\ UNCHANGED <<live, rep, fixedVars>>

\* create_job_catalog_for_replace moved inside the try block: its failure
\* reaches the Err arm and the abort.
CreateJobCatalogForReplaceInTry(r, ok) ==
  /\ pc[r] = "create_job_catalog_for_replace"
  /\ Logged(r, "create_job_catalog_for_replace", Res(ok))
  /\ IF ok
       THEN /\ cat' = [cat EXCEPT ![r] = "pending"]
            /\ rep' = [rep EXCEPT ![r].dummy = DummyId(r)]
            /\ pc' = [pc EXCEPT ![r] = "build_replace_table"]
            /\ UNCHANGED err
       ELSE /\ err' = [err EXCEPT ![r] = "create_job_catalog_for_replace"]
            /\ pc' = [pc EXCEPT ![r] = "try_abort_replacing_streaming_job"]
            /\ UNCHANGED <<cat, rep>>
  /\ UNCHANGED <<op, job, ret, registered, version, commitVersion, permits,
                 permitHeld, readers, writer, resched, bg>>
  /\ UNCHANGED <<live, fixedVars>>

\* Lines 222-225: create_job_catalog_for_replace(..).await?.
CreateJobCatalogForReplace(r, ok) ==
  /\ pc[r] = "create_job_catalog_for_replace"
  /\ Logged(r, "create_job_catalog_for_replace", Res(ok))
  /\ IF ok
       THEN /\ cat' = [cat EXCEPT ![r] = "pending"]
            /\ rep' = [rep EXCEPT ![r].dummy = DummyId(r)]
            /\ pc' = [pc EXCEPT ![r] = "build_replace_table"]
            /\ UNCHANGED <<ret, permits, permitHeld, readers>>
       ELSE /\ Return(r, RetErr("create_job_catalog_for_replace"))
            /\ UNCHANGED <<cat, rep>>
  /\ UNCHANGED <<op, job, err, registered, version, commitVersion, writer,
                 resched, bg>>
  /\ UNCHANGED <<live, fixedVars>>

\* The try block of lines 228-248 ended with Err(e): control is in the
\* Err(err) arm of line 265 and calls try_abort_replacing_streaming_job.
TryBlockFails(r, e) ==
  /\ err' = [err EXCEPT ![r] = e]
  /\ pc' = [pc EXCEPT ![r] = "try_abort_replacing_streaming_job"]

\* Lines 229-239: build_replace_table(.., dummy_id).await?, then
\* merge_updates = ctx.merge_updates.clone().
BuildReplaceTable(r, ok) ==
  /\ pc[r] = "build_replace_table"
  /\ Logged(r, "build_replace_table", Res(ok))
  /\ IF ok
       THEN /\ pc' = [pc EXCEPT ![r] = "r_prepare_streaming_job"]
            /\ rep' = [rep EXCEPT ![r].merge = "ctx.merge_updates"]
            /\ UNCHANGED err
       ELSE /\ TryBlockFails(r, "build_replace_table")
            /\ UNCHANGED rep
  /\ UNCHANGED <<op, job, ret, cat, registered, version, commitVersion,
                 permits, permitHeld, readers, writer, resched, bg>>
  /\ UNCHANGED <<live, fixedVars>>

\* prepare_streaming_job with its result ignored: the swap follows an Err.
ReplacePrepareUnchecked(r, ok) ==
  /\ pc[r] = "r_prepare_streaming_job"
  /\ Logged(r, "prepare_streaming_job", Res(ok))
  /\ cat' = [cat EXCEPT ![r] = IF ok THEN "creating" ELSE @]
  /\ pc' = [pc EXCEPT ![r] = "replace_table"]
  /\ UNCHANGED <<op, job, err, ret, registered, version, commitVersion,
                 permits, permitHeld, readers, writer, resched, bg>>
  /\ UNCHANGED <<live, rep, fixedVars>>

\* Lines 240-242: prepare_streaming_job(.., true).await?.
ReplacePrepare(r, ok) ==
  /\ pc[r] = "r_prepare_streaming_job"
  /\ Logged(r, "prepare_streaming_job", Res(ok))
  /\ IF ok
       THEN /\ cat' = [cat EXCEPT ![r] = "creating"]
            /\ pc' = [pc EXCEPT ![r] = "replace_table"]
            /\ UNCHANGED err
       ELSE /\ TryBlockFails(r, "prepare_streaming_job")
            /\ UNCHANGED cat
  /\ UNCHANGED <<op, job, ret, registered, version, commitVersion, permits,
                 permitHeld, readers, writer, resched, bg>>
  /\ UNCHANGED <<live, rep, fixedVars>>

\* replace_table with its result ignored: the commit follows even after Err.
ReplaceTableUnchecked(r, ok) ==
  /\ pc[r] = "replace_table"
  /\ Logged(r, "replace_table", Res(ok))
  /\ pc' = [pc EXCEPT ![r] = "finish_replace_streaming_job"]
  /\ UNCHANGED <<op, job, err, ret, cat, registered, version, commitVersion,
                 permits, permitHeld, readers, writer, resched, bg>>
  /\ UNCHANGED <<live, rep, fixedVars>>

\* Lines 244-251: stream_manager.replace_table(..).await?; on success the
\* try block yields Ok(merge_updates) and the Ok arm calls the commit.
ReplaceTable(r, ok) ==
  /\ pc[r] = "replace_table"
  /\ Logged(r, "replace_table", Res(ok))
  /\ IF ok
       THEN /\ pc' = [pc EXCEPT ![r] = "finish_replace_streaming_job"]
            /\ UNCHANGED err
       ELSE TryBlockFails(r, "replace_table")
  /\ UNCHANGED <<op, job, ret, cat, registered, version, commitVersion,
                 permits, permitHeld, readers, writer, resched, bg>>
  /\ UNCHANGED <<live, rep, fixedVars>>

\* Lines 252-263: finish_replace_streaming_job(..).await?; an Err leaves the
\* function through `?`, an Ok returns the version.
FinishReplace(r, ok) ==
  /\ pc[r] = "finish_replace_streaming_job"
  /\ Logged(r, "finish_replace_streaming_job", Res(ok))
  /\ rep' = [rep EXCEPT ![r].finish_id = rep[r].dummy,
                        ![r].finish_merge = rep[r].merge]
  /\ IF ok
       THEN /\ version' = version + 1
            /\ commitVersion' = [commitVersion EXCEPT ![r] = version + 1]
            /\ cat' = [cat EXCEPT ![r] = "committed"]
            /\ live' = [live EXCEPT ![r] = "replaced"]
            /\ Return(r, RetOk(version + 1))
       ELSE /\ Return(r, RetErr("finish_replace_streaming_job"))
            /\ UNCHANGED <<version, commitVersion, cat, live>>
  /\ UNCHANGED <<op, job, err, registered, writer, resched, bg>>
  /\ UNCHANGED fixedVars

\* The abort awaited with `?`: its error leaves the function.
TryAbortReplacingPropagated(r, res) ==
  /\ pc[r] = "try_abort_replacing_streaming_job"
  /\ Logged(r, "try_abort_replacing_streaming_job", res)
  /\ rep' = [rep EXCEPT ![r].abort_id = rep[r].dummy]
  /\ cat' = [cat EXCEPT ![r] = IF res = "true" THEN "aborted" ELSE @]
  /\ Return(r, IF res = "err"
                 THEN RetErr("try_abort_replacing_streaming_job")
                 ELSE RetErr(err[r]))
  /\ UNCHANGED <<op, job, err, registered, version, commitVersion, writer,
                 resched, bg>>
  /\ UNCHANGED <<live, fixedVars>>

\* Lines 265-274: try_abort_replacing_streaming_job(dummy_id).await with the
\* result discarded (`let _ =`), an error only logged; then Err(err).
TryAbortReplacing(r, res) ==
  /\ pc[r] = "try_abort_replacing_streaming_job"
  /\ Logged(r, "try_abort_replacing_streaming_job", res)
  /\ rep' = [rep EXCEPT ![r].abort_id = rep[r].dummy]
  /\ cat' = [cat EXCEPT ![r] = IF res = "true" THEN "aborted" ELSE @]
  /\ Return(r, RetErr(err[r]))
  /\ UNCHANGED <<op, job, err, registered, version, commitVersion, writer,
                 resched, bg>>
  /\ UNCHANGED <<live, fixedVars>>

\* ------------------------------------------------------ cluster rescheduling
\* The other user of stream_manager.reschedule_lock (lines 79, 209): it
\* takes the write side for the time actors are rebalanced.

RescheduleRequest ==
  /\ resched = "idle"
  /\ resched' = "waiting"
  /\ UNCHANGED <<pc, op, job, err, ret, log, cat, registered, version,
                 commitVersion, permits, permitHeld, readers, writer, bg>>
  /\ UNCHANGED <<live, rep, fixedVars>>

RescheduleAcquire ==
  /\ resched = "waiting"
  /\ ~writer
  /\ readers = {}
  /\ writer' = TRUE
  /\ resched' = "writing"
  /\ UNCHANGED <<pc, op, job, err, ret, log, cat, registered, version,
                 commitVersion, permits, permitHeld, readers, bg>>
  /\ UNCHANGED <<live, rep, fixedVars>>

RescheduleRelease ==
  /\ resched = "writing"
  /\ writer' = FALSE
  /\ resched' = "idle"
  /\ UNCHANGED <<pc, op, job, err, ret, log, cat, registered, version,
                 commitVersion, permits, permitHeld, readers, bg>>
  /\ UNCHANGED <<live, rep, fixedVars>>

\* ------------------------------------------------------------ specification

AbortResults == {"true", "false", "err"}
GraphResults == {"ok", "err", "no_version"}

Next ==
  \/ \E r \in Reqs, j \in CreateJobs : StartCreate(r, j)
  \/ \E r \in Reqs, ok \in BOOLEAN : CreateJobCatalog(r, ok)
  \/ \E r \in Reqs : AcquirePermit(r)
  \/ \E r \in Reqs : AcquireRead(r)
  \/ \E r \in Reqs, ok \in BOOLEAN : BuildGraph(r, ok)
  \/ \E r \in Reqs, ok \in BOOLEAN : CreateInternalTableCatalog(r, ok)
  \/ \E r \in Reqs, ok \in BOOLEAN : BuildStreamJob(r, ok)
  \/ \E r \in Reqs, ok \in BOOLEAN : Validate(r, ok)
  \/ \E r \in Reqs, ok \in BOOLEAN : Prepare(r, ok)
  \/ \E r \in Reqs, ok \in BOOLEAN : Activate(r, ok)
  \/ \E r \in Reqs, ok \in BOOLEAN : Finish(r, ok)
  \/ \E r \in Reqs : SpawnBackground(r)
  \/ \E r \in Reqs, ok \in BOOLEAN : BgActivate(r, ok)
  \/ \E r \in Reqs, ok \in BOOLEAN : BgFinish(r, ok)
  \/ \E r \in Reqs, res \in AbortResults : TryAbortCreating(r, res)
  \/ \E r \in Reqs : UnregisterSources(r)
  \/ \E r \in Reqs, j \in ReplaceJobs : StartReplace(r, j)
  \/ \E r \in Reqs : ReplaceAcquireRead(r)
  \/ \E r \in Reqs, res \in GraphResults : ReplaceBuildGraph(r, res)
  \/ \E r \in Reqs, ok \in BOOLEAN : CreateJobCatalogForReplace(r, ok)
  \/ \E r \in Reqs, ok \in BOOLEAN : BuildReplaceTable(r, ok)
  \/ \E r \in Reqs, ok \in BOOLEAN : ReplacePrepare(r, ok)
  \/ \E r \in Reqs, ok \in BOOLEAN : ReplaceTable(r, ok)
  \/ \E r \in Reqs, ok \in BOOLEAN : FinishReplace(r, ok)
  \/ \E r \in Reqs, res \in AbortResults : TryAbortReplacing(r, res)
  \/ RescheduleRequest
  \/ RescheduleAcquire
  \/ RescheduleRelease

Spec == Init /\ [][Next]_vars

SpecActive == InitActive /\ [][Next]_vars

\* replace_table_v2 on its own (lines 198-276), next to cluster rescheduling.
NextReplace ==
  \/ \E r \in Reqs, j \in ReplaceJobs : StartReplace(r, j)
  \/ \E r \in Reqs : ReplaceAcquireRead(r)
  \/ \E r \in Reqs, res \in GraphResults : ReplaceBuildGraph(r, res)
  \/ \E r \in Reqs, ok \in BOOLEAN : CreateJobCatalogForReplace(r, ok)
  \/ \E r \in Reqs, ok \in BOOLEAN : BuildReplaceTable(r, ok)
  \/ \E r \in Reqs, ok \in BOOLEAN : ReplacePrepare(r, ok)
  \/ \E r \in Reqs, ok \in BOOLEAN : ReplaceTable(r, ok)
  \/ \E r \in Reqs, ok \in BOOLEAN : FinishReplace(r, ok)
  \/ \E r \in Reqs, res \in AbortResults : TryAbortReplacing(r, res)
  \/ RescheduleRequest
  \/ RescheduleAcquire
  \/ RescheduleRelease

SpecReplace == InitActive /\ [][NextReplace]_vars

\* The workload of the concurrency properties: every slot receives a
\* request, each for a Table with a connector source.
InitShared == InitWith(Reqs) /\ menu = "table_with_source"

SpecShared == InitShared /\ [][Next]_vars

\* create_streaming_job_v2 on its own (lines 35-195), with the detached
\* futures it spawns, next to cluster rescheduling.
NextCreate ==
  \/ \E r \in Reqs, j \in CreateJobs : StartCreate(r, j)
  \/ \E r \in Reqs, ok \in BOOLEAN : CreateJobCatalog(r, ok)
  \/ \E r \in Reqs : AcquirePermit(r)
  \/ \E r \in Reqs : AcquireRead(r)
  \/ \E r \in Reqs, ok \in BOOLEAN : BuildGraph(r, ok)
  \/ \E r \in Reqs, ok \in BOOLEAN : CreateInternalTableCatalog(r, ok)
  \/ \E r \in Reqs, ok \in BOOLEAN : BuildStreamJob(r, ok)
  \/ \E r \in Reqs, ok \in BOOLEAN : Validate(r, ok)
  \/ \E r \in Reqs, ok \in BOOLEAN : Prepare(r, ok)
  \/ \E r \in Reqs, ok \in BOOLEAN : Activate(r, ok)
  \/ \E r \in Reqs, ok \in BOOLEAN : Finish(r, ok)
  \/ \E r \in Reqs : SpawnBackground(r)
  \/ \E r \in Reqs, ok \in BOOLEAN : BgActivate(r, ok)
  \/ \E r \in Reqs, ok \in BOOLEAN : BgFinish(r, ok)
  \/ \E r \in Reqs, res \in AbortResults : TryAbortCreating(r, res)
  \/ \E r \in Reqs : UnregisterSources(r)
  \/ RescheduleRequest
  \/ RescheduleAcquire
  \/ RescheduleRelease

SpecCreate == InitActive /\ [][NextCreate]_vars

\* The requests and the detached futures while no cluster rescheduling is
\* going on: the reschedule lock is only ever read-locked.
NextRequests ==
  \/ \E r \in Reqs, j \in CreateJobs : StartCreate(r, j)
  \/ \E r \in Reqs, ok \in BOOLEAN : CreateJobCatalog(r, ok)
  \/ \E r \in Reqs : AcquirePermit(r)
  \/ \E r \in Reqs : AcquireRead(r)
  \/ \E r \in Reqs, ok \in BOOLEAN : BuildGraph(r, ok)
  \/ \E r \in Reqs, ok \in BOOLEAN : CreateInternalTableCatalog(r, ok)
  \/ \E r \in Reqs, ok \in BOOLEAN : BuildStreamJob(r, ok)
  \/ \E r \in Reqs, ok \in BOOLEAN : Validate(r, ok)
  \/ \E r \in Reqs, ok \in BOOLEAN : Prepare(r, ok)
  \/ \E r \in Reqs, ok \in BOOLEAN : Activate(r, ok)
  \/ \E r \in Reqs, ok \in BOOLEAN : Finish(r, ok)
  \/ \E r \in Reqs : SpawnBackground(r)
  \/ \E r \in Reqs, ok \in BOOLEAN : BgActivate(r, ok)
  \/ \E r \in Reqs, ok \in BOOLEAN : BgFinish(r, ok)
  \/ \E r \in Reqs, res \in AbortResults : TryAbortCreating(r, res)
  \/ \E r \in Reqs : UnregisterSources(r)
  \/ \E r \in Reqs, j \in ReplaceJobs : StartReplace(r, j)
  \/ \E r \in Reqs : ReplaceAcquireRead(r)
  \/ \E r \in Reqs, res \in GraphResults : ReplaceBuildGraph(r, res)
  \/ \E r \in Reqs, ok \in BOOLEAN : CreateJobCatalogForReplace(r, ok)
  \/ \E r \in Reqs, ok \in BOOLEAN : BuildReplaceTable(r, ok)
  \/ \E r \in Reqs, ok \in BOOLEAN : ReplacePrepare(r, ok)
  \/ \E r \in Reqs, ok \in BOOLEAN : ReplaceTable(r, ok)
  \/ \E r \in Reqs, ok \in BOOLEAN : FinishReplace(r, ok)
  \/ \E r \in Reqs, res \in AbortResults : TryAbortReplacing(r, res)

SpecRequests == InitShared /\ [][NextRequests]_vars

\* A step of request r or of its detached future that waits for no lock
\* and no permit: a collaborator call that completes.
Step(r) ==
  \/ \E ok \in BOOLEAN :
       \/ CreateJobCatalog(r, ok)
       \/ BuildGraph(r, ok)
       \/ CreateInternalTableCatalog(r, ok)
       \/ BuildStreamJob(r, ok)
       \/ Validate(r, ok)
       \/ Prepare(r, ok)
       \/ Activate(r, ok)
       \/ Finish(r, ok)
       \/ BgActivate(r, ok)
       \/ BgFinish(r, ok)
       \/ CreateJobCatalogForReplace(r, ok)
       \/ BuildReplaceTable(r, ok)
       \/ ReplacePrepare(r, ok)
       \/ ReplaceTable(r, ok)
       \/ FinishReplace(r, ok)
  \/ \E res \in AbortResults :
       TryAbortCreating(r, res) \/ TryAbortReplacing(r, res)
  \/ \E res \in GraphResults : ReplaceBuildGraph(r, res)
  \/ SpawnBackground(r)
  \/ UnregisterSources(r)

\* Every collaborator call terminates and the executor polls every task
\* that can run (weak fairness); a waiter on the semaphore or on the lock is
\* served when its turn comes, however often the resource is taken in
\* between (strong fairness on the acquisitions); a rescheduling that holds
\* the write side ends.  Arrivals carry no fairness.
Fairness ==
  /\ \A r \in Reqs :
       /\ WF_vars(Step(r))
       /\ SF_vars(AcquirePermit(r))
       /\ SF_vars(AcquireRead(r) \/ ReplaceAcquireRead(r))
  /\ SF_vars(RescheduleAcquire)
  /\ WF_vars(RescheduleRelease)

SpecFair == InitShared /\ [][Next]_vars /\ Fairness

\* ----------------------------------------------------- DataChunk iteration
\* data_chunk_iter.rs lines 8-44. A chunk is seen through the two calls the
\* iterator makes: capacity() and row_at(i), whose Result is Ok((row, vis))
\* with the visibility bit of row i, or Err for an index outside the chunk.

MaxRows == 5

DataChunks ==
  UNION { { [capacity |-> n, rows |-> vis] : vis \in [1..n -> BOOLEAN] } :
          n \in 0..MaxRows }

\* self.chunk.row_at(i).
row_at(c, i) ==
  IF i < c.capacity
    THEN [ok |-> TRUE, vis |-> c.rows[i + 1]]
    ELSE [ok |-> FALSE, vis |-> FALSE]

\* Option::None of next(); Some(row) is the index of the row.
None == -1

\* next() that returns the row under the cursor whatever its visibility.
nextNoSkip(c, i) ==
  IF i >= c.capacity \/ ~row_at(c, i).ok
    THEN [idx |-> i, item |-> None]
    ELSE [idx |-> i + 1, item |-> i]

\* Lines 27-37: the loop of next() from cursor i; the cursor it leaves and
\* the item it returns.
RECURSIVE next(_, _)
next(c, i) ==
  IF i >= c.capacity
    THEN [idx |-> i, item |-> None]
    ELSE IF ~row_at(c, i).ok
      THEN [idx |-> i, item |-> None]
      ELSE IF row_at(c, i).vis
        THEN [idx |-> i + 1, item |-> i]
        ELSE next(c, i + 1)

\* Lines 9-14: rows() puts the cursor at 0 of some chunk.
InitChunk ==
  /\ Controller({})
  /\ menu = "any"
  /\ NoRow
  /\ chunk \in DataChunks
  /\ idx = 0
  /\ yielded = <<>>
  /\ ended = FALSE

\* One call of Iterator::next on the DataChunkRefIter.
IterNext ==
  LET out == next(chunk, idx) IN
    /\ idx' = out.idx
    /\ yielded' = IF out.item = None THEN yielded ELSE Append(yielded, out.item)
    /\ ended' = (ended \/ out.item = None)
    /\ UNCHANGED <<chunk, ddlVars, rowVars>>

NextChunk == IterNext

SpecChunk == InitChunk /\ [][NextChunk]_vars

\* ------------------------------------------------------------ Row encoding
\* data_chunk_iter.rs lines 113-182. A datum is NULL or a scalar of a
\* DataTypeKind; a scalar's bytes are those of the memcomparable encoding.

MaxCols == 2

DataTypeKinds == {"Boolean", "Int16"}
Int16Vals == {-32768, -1, 0, 258}

Null == [kind |-> "Null", val |-> 0]
Datums ==
  {Null} \cup { [kind |-> "Boolean", val |-> v] : v \in 0..1 }
         \cup { [kind |-> "Int16", val |-> v] : v \in Int16Vals }

Rows == UNION { [1..n -> Datums] : n \in 0..MaxCols }

\* The schemas that list the column types of row r in order.
SchemasOf(r) ==
  { s \in [1..Len(r) -> DataTypeKinds] :
      \A i \in 1..Len(r) : r[i].kind \in {"Null", s[i]} }

\* v.serialize(&mut serializer) of a scalar: a bool is one byte 0 or 1, an
\* i16 two bytes, big-endian with the sign bit flipped.
ScalarSerialize(d) ==
  IF d.kind = "Boolean"
    THEN <<d.val>>
    ELSE <<(d.val + 32768) \div 256, (d.val + 32768) % 256>>

DeOk(v, rest) == [ok |-> TRUE, val |-> v, rest |-> rest, err |-> "", byte |-> 0]
DeErr(e, b) == [ok |-> FALSE, val |-> Null, rest |-> <<>>, err |-> e, byte |-> b]

\* ScalarImpl::deserialize(ty, &mut deserializer) on the bytes left.
ScalarDeserialize(ty, bytes) ==
  IF ty = "Boolean"
    THEN IF Len(bytes) < 1 THEN DeErr("UnexpectedEof", 0)
         ELSE IF bytes[1] \in 0..1
           THEN DeOk([kind |-> "Boolean", val |-> bytes[1]], Tail(bytes))
           ELSE DeErr("InvalidBoolEncoding", bytes[1])
    ELSE IF Len(bytes) < 2 THEN DeErr("UnexpectedEof", 0)
         ELSE DeOk([kind |-> "Int16",
                    val |-> bytes[1] * 256 + bytes[2] - 32768],
                   Tail(Tail(bytes)))

\* Row::serialize with the tag of a NULL left out.
RECURSIVE serializeNoNullTag(_)
serializeNoNullTag(r) ==
  IF r = <<>> THEN <<>>
  ELSE (IF Head(r) = Null THEN <<>> ELSE <<1>> \o ScalarSerialize(Head(r)))
         \o serializeNoNullTag(Tail(r))

\* Lines 116-128: Row::serialize, column by column.
RECURSIVE serialize(_)
serialize(r) ==
  IF r = <<>> THEN <<>>
  ELSE (IF Head(r) # Null
          THEN <<1>> \o ScalarSerialize(Head(r))
          ELSE <<0>>)
         \o serialize(Tail(r))

\* Lines 131-139: Row::serialize_not_null on a row without NULL.
RECURSIVE serialize_not_null(_)
serialize_not_null(r) ==
  IF r = <<>> THEN <<>>
  ELSE ScalarSerialize(Head(r)) \o serialize_not_null(Tail(r))

RowOk(r) == [ok |-> TRUE, row |-> r, err |-> "", byte |-> 0]
RowErr(e, b) == [ok |-> FALSE, row |-> <<>>, err |-> e, byte |-> b]

\* Lines 155-169: RowDeserializer::deserialize over the schema left and the
\* bytes left.
RECURSIVE deserialize(_, _)
deserialize(s, bytes) ==
  IF s = <<>> THEN RowOk(<<>>)
  ELSE IF bytes = <<>> THEN RowErr("UnexpectedEof", 0)
  ELSE IF Head(bytes) = 0
    THEN LET more == deserialize(Tail(s), Tail(bytes))
         IN IF more.ok THEN RowOk(<<Null>> \o more.row) ELSE more
  ELSE IF Head(bytes) = 1
    THEN LET scalar == ScalarDeserialize(Head(s), Tail(bytes))
         IN IF ~scalar.ok THEN RowErr(scalar.err, scalar.byte)
            ELSE LET more == deserialize(Tail(s), scalar.rest)
                 IN IF more.ok THEN RowOk(<<scalar.val>> \o more.row)
                    ELSE more
  ELSE RowErr("InvalidTagEncoding", Head(bytes))

\* Lines 172-181: RowDeserializer::deserialize_not_null.
RECURSIVE deserialize_not_null(_, _)
deserialize_not_null(s, bytes) ==
  IF s = <<>> THEN RowOk(<<>>)
  ELSE LET scalar == ScalarDeserialize(Head(s), bytes)
       IN IF ~scalar.ok THEN RowErr(scalar.err, scalar.byte)
          ELSE LET more == deserialize_not_null(Tail(s), scalar.rest)
               IN IF more.ok THEN RowOk(<<scalar.val>> \o more.row)
                  ELSE more

\* A row and a RowDeserializer::new(schema) for its column types.
InitRow ==
  /\ Controller({})
  /\ menu = "any"
  /\ NoIter
  /\ row \in Rows
  /\ schema \in SchemasOf(row)
  /\ data = <<>>
  /\ result = NoResult

Staged(st) == [NoResult EXCEPT !.stage = st]

Serialize ==
  /\ result.stage = "none"
  /\ data' = serialize(row)
  /\ result' = Staged("serialized")
  /\ UNCHANGED <<row, schema, ddlVars, chunkVars>>

\* expect("value can not be null") panics on a NULL.
SerializeNotNull ==
  /\ result.stage = "none"
  /\ IF \E i \in 1..Len(row) : row[i] = Null
       THEN /\ result' = Staged("panicked")
            /\ UNCHANGED data
       ELSE /\ data' = serialize_not_null(row)
            /\ result' = Staged("serialized_not_null")
  /\ UNCHANGED <<row, schema, ddlVars, chunkVars>>

\* The bytes reach the deserializer with byte p changed to b.
TamperBytes == {0, 1, 2, 255}
Tamper(p, b) ==
  /\ result.stage = "serialized"
  /\ p \in 1..Len(data)
  /\ b # data[p]
  /\ data' = [data EXCEPT ![p] = b]
  /\ result' = Staged("tampered")
  /\ UNCHANGED <<row, schema, ddlVars, chunkVars>>

Returned(from, out) ==
  [stage |-> "deserialized", from |-> from, ok |-> out.ok, row |-> out.row,
   err |-> out.err, byte |-> out.byte]

Deserialize ==
  /\ result.stage \in {"serialized", "tampered"}
  /\ result' = Returned(result.stage, deserialize(schema, data))
  /\ UNCHANGED <<row, schema, data, ddlVars, chunkVars>>

DeserializeNotNull ==
  /\ result.stage = "serialized_not_null"
  /\ result' = Returned(result.stage, deserialize_not_null(schema, data))
  /\ UNCHANGED <<row, schema, data, ddlVars, chunkVars>>

NextRow ==
  \/ Serialize
  \/ SerializeNotNull
  \/ \E p \in 1..Len(data), b \in TamperBytes : Tamper(p, b)
  \/ Deserialize
  \/ DeserializeNotNull

SpecRow == InitRow /\ [][NextRow]_vars

\* =================================================================== claims

\* What the call log of a job says.
Count(r, call) == Cardinality({i \in DOMAIN log[r] : log[r][i][1] = call})
Did(r, call, res) == \E i \in DOMAIN log[r] : log[r][i] = <<call, res>>
Before(r, c1, c2) ==
  \A i \in DOMAIN log[r] :
    log[r][i][1] = c2 => \E k \in 1..(i - 1) : log[r][k] = <<c1, "ok">>

CreateDone(r) == op[r] = "create" /\ pc[r] = "done"
ReplaceDone(r) == op[r] = "replace" /\ pc[r] = "done"

\* The job is a Table with an attached source or a standalone Source.
CarriesSource(r) ==
  \/ job[r].variant = "Source"
  \/ job[r].variant = "Table" /\ job[r].src
SinkIntoTable(r) == job[r].variant = "Sink" /\ job[r].target
IsBackground(r) == job[r].create_type = "Background"

\* The detached future of r is running (activation or commit in flight).
BgRunning(r) == bg[r] \in {"create_streaming_job", "finish_streaming_job"}

\* C1: whenever the inner creation attempt of a create request failed with
\* error E, the request returns exactly E, whatever the compensating
\* try_abort_creating_streaming_job call did.
C1_OriginalErrorReturned ==
  \A r \in Reqs :
    (CreateDone(r) /\ err[r] # "") => ret[r] = RetErr(err[r])

\* C2: a create request makes exactly one try_abort_creating_streaming_job
\* call if a synchronous step after pending-catalog creation failed, and none
\* if it succeeded or if create_job_catalog failed (and then it made no other
\* call and took neither a permit nor the read hold).
C2_ExactlyOneAbort ==
  \A r \in Reqs :
    CreateDone(r) =>
      /\ ret[r].tag = "ok" => Count(r, "try_abort_creating_streaming_job") = 0
      /\ Did(r, "create_job_catalog", "err") =>
           log[r] = <<Ev("create_job_catalog", "err")>>
      /\ (ret[r].tag # "ok" /\ Did(r, "create_job_catalog", "ok")) =>
           Count(r, "try_abort_creating_streaming_job") = 1

\* C3: a replace request that returns an error after its dummy catalog entry
\* was created has invoked try_abort_replacing_streaming_job exactly once.
C3_ReplaceAbortsDummy ==
  \A r \in Reqs :
    (ReplaceDone(r) /\ ret[r].tag = "err"
       /\ Did(r, "create_job_catalog_for_replace", "ok")) =>
      Count(r, "try_abort_replacing_streaming_job") = 1

\* C4: at most NumPermits create jobs are past the building stage, from the
\* permit acquisition to the end of activation and commit or abort, the
\* detached activation and commit of Background jobs included.
PastBuilding(r) == r \in permitHeld \/ BgRunning(r)
C4_AdmissionBound ==
  Cardinality({r \in Reqs : PastBuilding(r)}) <= NumPermits

\* C5: the detached activation and commit of a Background job run under a
\* reschedule read hold and an admission permit, so never while cluster
\* rescheduling holds the write side of the reschedule lock.
C5_BackgroundUnderReadHold ==
  \A r \in Reqs : BgRunning(r) => ~writer

\* C6: a Background create whose prepare succeeded returns the sentinel
\* IGNORED_NOTIFICATION_VERSION as soon as the detached activation is
\* scheduled; a Foreground or Unspecified create returns Ok only after
\* activation and finish_streaming_job both succeeded, and returns the
\* version finish_streaming_job produced.
C6_ForegroundBackgroundFork ==
  \A r \in Reqs :
    (op[r] = "create" /\ ret[r].tag = "ok") =>
      /\ Did(r, "prepare_streaming_job", "ok")
      /\ IF IsBackground(r)
           THEN /\ ret[r].ver = IGNORED_NOTIFICATION_VERSION
                /\ bg[r] # "none"
                /\ Count(r, "create_streaming_job") = 0
                /\ Count(r, "finish_streaming_job") = 0
           ELSE /\ Did(r, "create_streaming_job", "ok")
                /\ Did(r, "finish_streaming_job", "ok")
                /\ Before(r, "create_streaming_job", "finish_streaming_job")
                /\ ret[r].ver = commitVersion[r]
                /\ ret[r].ver # IGNORED_NOTIFICATION_VERSION
                /\ bg[r] = "none"

\* C6 witness: a Background request has returned the sentinel while its
\* detached activation has not completed.
C6_Witness ==
  \E r \in Reqs :
    /\ op[r] = "create" /\ IsBackground(r)
    /\ Did(r, "prepare_streaming_job", "ok")
    /\ ret[r] = RetOk(IGNORED_NOTIFICATION_VERSION)
    /\ bg[r] = "create_streaming_job"
    /\ Count(r, "bg_create_streaming_job") = 0

\* C7: errors of the detached unit of a Background create are terminal: a
\* failed activation is followed by no commit, no retry, no abort and no
\* unregister, the job stays "creating" and the sentinel already returned
\* stands; a successful activation is followed by exactly one commit whose
\* failure is neither propagated nor compensated.
C7_BackgroundErrorsTerminal ==
  \A r \in Reqs :
    /\ Count(r, "bg_create_streaming_job") <= 1
    /\ Count(r, "bg_finish_streaming_job") <= 1
    /\ Count(r, "bg_create_streaming_job") > 0 =>
         /\ ret[r] = RetOk(IGNORED_NOTIFICATION_VERSION)
         /\ Count(r, "try_abort_creating_streaming_job") = 0
         /\ Count(r, "unregister_sources") = 0
    /\ Did(r, "bg_create_streaming_job", "err") =>
         /\ bg[r] = "done"
         /\ Count(r, "bg_finish_streaming_job") = 0
         /\ cat[r] = "creating"
    /\ (Did(r, "bg_create_streaming_job", "ok") /\ bg[r] = "done") =>
         Count(r, "bg_finish_streaming_job") = 1
    /\ Did(r, "bg_finish_streaming_job", "err") =>
         /\ bg[r] = "done"
         /\ cat[r] = "creating"

\* C7 witness: a detached unit has ended on a failed activation.
C7_Witness ==
  \E r \in Reqs :
    /\ Did(r, "bg_create_streaming_job", "err")
    /\ bg[r] = "done"
    /\ cat[r] = "creating"

\* C8: finish_streaming_job is invoked for a job only after its
\* prepare_streaming_job and its activation succeeded; a create that fails
\* is never left committed, and one that fails before prepare has never
\* invoked prepare_streaming_job.
FailedBeforePrepare(r) ==
  \/ ret[r].tag = "panic"
  \/ Did(r, "create_job_catalog", "err")
  \/ err[r] \in {"StreamFragmentGraph_new", "create_internal_table_catalog",
                 "build_stream_job", "validate_cdc_table", "register_source",
                 "validate_sink"}
C8_NoPartialVisibility ==
  \A r \in Reqs :
    op[r] = "create" =>
      /\ Before(r, "prepare_streaming_job", "finish_streaming_job")
      /\ Before(r, "create_streaming_job", "finish_streaming_job")
      /\ Before(r, "prepare_streaming_job", "bg_finish_streaming_job")
      /\ Before(r, "bg_create_streaming_job", "bg_finish_streaming_job")
      /\ cat[r] = "committed" =>
           Did(r, "finish_streaming_job", "ok")
             \/ Did(r, "bg_finish_streaming_job", "ok")
      /\ (pc[r] = "done" /\ ret[r].tag # "ok") => cat[r] # "committed"
      /\ FailedBeforePrepare(r) =>
           /\ Count(r, "prepare_streaming_job") = 0
           /\ cat[r] \notin {"creating", "committed"}

\* C8 witness: a create has returned after failing at activation, its
\* prepare having succeeded.
C8_Witness ==
  \E r \in Reqs :
    /\ CreateDone(r) /\ err[r] = "create_streaming_job"
    /\ Did(r, "prepare_streaming_job", "ok")

C10_SourceCompensation ==
  /\ \A r \in Reqs :
       (CreateDone(r) /\ ret[r].tag # "ok") =>
         /\ Count(r, "unregister_sources") =
              IF Did(r, "try_abort_creating_streaming_job", "true")
                   /\ CarriesSource(r)
                THEN 1 ELSE 0
         /\ Count(r, "unregister_sources") = 1 => SourceId(r) \notin registered
         /\ (err[r] = "register_source"
               /\ Did(r, "try_abort_creating_streaming_job", "true")) =>
              /\ ret[r] = RetErr("register_source")
              /\ cat[r] = "aborted"
              /\ SourceId(r) \notin registered
  /\ registered =
       { SourceId(q) : q \in { x \in Reqs :
           Did(x, "register_source", "ok")
             /\ Count(x, "unregister_sources") = 0 } }

\* C10 witness: a Foreground Table with a source has returned after
\* register_source succeeded, a later step failed, the abort reported true
\* and the source was unregistered.
C10_Witness ==
  \E r \in Reqs :
    /\ CreateDone(r) /\ job[r].variant = "Table" /\ job[r].src
    /\ job[r].create_type = "Foreground"
    /\ Did(r, "register_source", "ok")
    /\ Did(r, "try_abort_creating_streaming_job", "true")
    /\ Count(r, "unregister_sources") = 1
    /\ ret[r] = RetErr(err[r])

\* The steps of replace_table_v2 whose failure ends the request before the
\* commit, in program order.
ReplaceSteps ==
  <<"StreamFragmentGraph_new", "create_job_catalog_for_replace",
    "build_replace_table", "prepare_streaming_job", "replace_table">>

\* Some step of the replace request r before the commit has failed.
ReplaceStepFailed(r) ==
  /\ op[r] = "replace"
  /\ \/ \E k \in DOMAIN ReplaceSteps : Did(r, ReplaceSteps[k], "err")
     \/ ret[r] = RetErr("get_version")

\* Every call logged after the first failed one is the abort of the dummy.
OnlyAbortAfterFailure(r) ==
  \A i \in DOMAIN log[r] :
    log[r][i][2] = "err" =>
      \A k \in (i + 1)..Len(log[r]) :
        log[r][k][1] = "try_abort_replacing_streaming_job"

\* C11: once graph build, dummy-catalog creation, build_replace_table,
\* prepare_streaming_job or replace_table of a replace request has failed,
\* finish_replace_streaming_job is never invoked, the only later catalog call
\* is try_abort_replacing_streaming_job on the dummy entry, and the live
\* table keeps its committed version and wiring.
C11_FailedReplaceLeavesLive ==
  \A r \in Reqs :
    ReplaceStepFailed(r) =>
      /\ Count(r, "finish_replace_streaming_job") = 0
      /\ OnlyAbortAfterFailure(r)
      /\ Count(r, "try_abort_replacing_streaming_job") > 0 =>
           rep[r].abort_id = DummyId(r) /\ rep[r].abort_id # JobId(r)
      /\ live[r] = "untouched"
      /\ cat[r] # "committed"
      /\ commitVersion[r] = IGNORED_NOTIFICATION_VERSION

C11_Witness ==
  \E r \in Reqs :
    /\ ReplaceDone(r)
    /\ Did(r, "replace_table", "err")
    /\ Did(r, "try_abort_replacing_streaming_job", "true")
    /\ cat[r] = "aborted"
    /\ rep[r].abort_id = DummyId(r)
    /\ live[r] = "untouched"

\* C12: finish_replace_streaming_job is invoked at most once per replace
\* request, only after create_job_catalog_for_replace, build_replace_table,
\* prepare_streaming_job and replace_table succeeded in that order, with the
\* dummy id of the request and the merge updates collected at the build; a
\* request that returns Ok returns the version that call produced.
C12_MergeUpdatesOnce ==
  \A r \in Reqs :
    op[r] = "replace" =>
      /\ Count(r, "finish_replace_streaming_job") <= 1
      /\ Before(r, "create_job_catalog_for_replace", "build_replace_table")
      /\ Before(r, "build_replace_table", "prepare_streaming_job")
      /\ Before(r, "prepare_streaming_job", "replace_table")
      /\ Before(r, "replace_table", "finish_replace_streaming_job")
      /\ Count(r, "finish_replace_streaming_job") = 1 =>
           /\ rep[r].finish_id = DummyId(r)
           /\ rep[r].finish_merge = "ctx.merge_updates"
      /\ live[r] = "replaced" <=> Did(r, "finish_replace_streaming_job", "ok")
      /\ (pc[r] = "done" /\ ret[r].tag = "ok") =>
           /\ Did(r, "finish_replace_streaming_job", "ok")
           /\ ret[r] = RetOk(commitVersion[r])
           /\ commitVersion[r] # IGNORED_NOTIFICATION_VERSION

C12_Witness ==
  \E r \in Reqs :
    /\ ReplaceDone(r)
    /\ ret[r].tag = "ok"
    /\ live[r] = "replaced"
    /\ rep[r].finish_id = DummyId(r)
    /\ Count(r, "finish_replace_streaming_job") = 1

\* The version check of the replace request r failed: the table carries no
\* version, or create_job_catalog_for_replace rejected the one it carries.
VersionCheckFailed(r) ==
  /\ op[r] = "replace"
  /\ \/ Did(r, "create_job_catalog_for_replace", "err")
     \/ ret[r] = RetErr("get_version")

\* C13: a replace request whose version check fails returns that error with
\* no dummy catalog row created and without any call of
\* try_abort_replacing_streaming_job, build_replace_table,
\* prepare_streaming_job, replace_table or finish_replace_streaming_job.
C13_StaleVersionFailsEarly ==
  \A r \in Reqs :
    VersionCheckFailed(r) =>
      /\ pc[r] = "done"
      /\ ret[r] \in {RetErr("create_job_catalog_for_replace"),
                     RetErr("get_version")}
      /\ Did(r, "create_job_catalog_for_replace", "err") =>
           ret[r] = RetErr("create_job_catalog_for_replace")
      /\ cat[r] = "none"
      /\ rep[r] = NoRep
      /\ \A c \in {"try_abort_replacing_streaming_job", "build_replace_table",
                    "prepare_streaming_job", "replace_table",
                    "finish_replace_streaming_job"} : Count(r, c) = 0

C13_Witness ==
  \E r \in Reqs :
    /\ ReplaceDone(r)
    /\ Did(r, "create_job_catalog_for_replace", "err")
    /\ ret[r] = RetErr("create_job_catalog_for_replace")
    /\ cat[r] = "none"

\* C14: when build_replace_table, prepare_streaming_job or replace_table of a
\* replace request failed with error E, the request returns E, also when
\* try_abort_replacing_streaming_job failed too.
C14_AbortFailureNotMasking ==
  \A r \in Reqs :
    \A step \in {"build_replace_table", "prepare_streaming_job",
                  "replace_table"} :
      (ReplaceDone(r) /\ Did(r, step, "err")) =>
        /\ ret[r] = RetErr(step)
        /\ Count(r, "try_abort_replacing_streaming_job") = 1

C14_Witness ==
  \E r \in Reqs :
    /\ ReplaceDone(r)
    /\ Did(r, "prepare_streaming_job", "err")
    /\ Did(r, "try_abort_replacing_streaming_job", "err")
    /\ ret[r] = RetErr("prepare_streaming_job")

\* The indexes below `limit` of the rows of c whose visibility bit is set,
\* in ascending order.
VisibleBelow(c, limit) ==
  LET Visible(i) == c.rows[i + 1]
  IN SelectSeq([k \in 1..limit |-> k - 1], Visible)

\* C15: the rows next() has returned are exactly the rows below the cursor
\* whose visibility bit is set, each once and in ascending index order; the
\* cursor never passes the capacity, and None is returned only with the
\* cursor at the capacity, all visible rows of the chunk having been
\* returned.
C15_OnlyVisibleRows ==
  /\ yielded = VisibleBelow(chunk, idx)
  /\ idx <= chunk.capacity
  /\ ended => /\ idx = chunk.capacity
              /\ yielded = VisibleBelow(chunk, chunk.capacity)

C15_Witness ==
  /\ ended
  /\ chunk.capacity = MaxRows
  /\ Len(yielded) >= 2
  /\ \E i \in 1..chunk.capacity : ~chunk.rows[i]

\* The encoding C16 describes: per column one tag byte, 0 for NULL with no
\* payload, 1 followed by the bytes of the value.
Framed(r) ==
  LET Column(i) ==
        IF r[i] = Null THEN <<0>> ELSE <<1>> \o ScalarSerialize(r[i])
      F[i \in 0..Len(r)] == IF i = 0 THEN <<>> ELSE F[i - 1] \o Column(i)
  IN F[Len(r)]

\* The position of the tag byte of column k in the encoding of r.
TagPos(r, k) == Len(Framed(SubSeq(r, 1, k - 1))) + 1

\* C16: serialize writes per column a tag byte, 0 for NULL and 1 followed by
\* the value; deserialize with a schema of the row's column types gives the
\* row back; a tag byte other than 0 or 1 makes it fail with
\* InvalidTagEncoding of that byte; and deserialize_not_null gives back
\* every row without NULL that serialize_not_null encoded.
C16_RowRoundTrip ==
  /\ result.stage = "serialized" => data = Framed(row)
  /\ (result.stage = "deserialized" /\ result.from = "serialized") =>
       result.ok /\ result.row = row
  /\ (result.stage = "deserialized" /\ result.from = "tampered") =>
       \A k \in 1..Len(row), t \in TamperBytes \ {0, 1} :
         data = [Framed(row) EXCEPT ![TagPos(row, k)] = t] =>
           /\ ~result.ok
           /\ result.err = "InvalidTagEncoding"
           /\ result.byte = t
  /\ result.stage = "serialized_not_null" =>
       \A i \in 1..Len(row) : row[i] # Null
  /\ (result.stage = "deserialized"
        /\ result.from = "serialized_not_null") =>
       result.ok /\ result.row = row

C16_Witness ==
  /\ result.stage = "deserialized"
  /\ result.from = "serialized"
  /\ Len(row) = MaxCols
  /\ \E i \in 1..Len(row) : row[i] = Null
  /\ \E i \in 1..Len(row) : row[i].kind = "Int16" /\ row[i].val < 0
  /\ result.row = row

\* The request r is between fragment-graph building and its return.
GraphToReturn(r) ==
  \/ /\ op[r] = "create"
     /\ pc[r] \in {"StreamFragmentGraph_new", "create_internal_table_catalog",
                   "build_stream_job", "validate_cdc_table", "register_source",
                   "validate_sink", "prepare_streaming_job", "spawn",
                   "create_streaming_job", "finish_streaming_job",
                   "try_abort_creating_streaming_job", "unregister_sources"}
  \/ /\ op[r] = "replace"
     /\ pc[r] \in {"r_StreamFragmentGraph_new",
                   "create_job_catalog_for_replace", "build_replace_table",
                   "r_prepare_streaming_job", "replace_table",
                   "finish_replace_streaming_job",
                   "try_abort_replacing_streaming_job"}

\* C17: a Foreground create request or a replace request that is between
\* fragment-graph building and its return holds the read side of the
\* reschedule lock, and no rescheduler holds the write side then.
C17_ReadHoldThroughReturn ==
  \A r \in Reqs :
    (GraphToReturn(r) /\ (op[r] = "replace" \/ ~IsBackground(r))) =>
      /\ r \in readers
      /\ ~writer
      /\ resched # "writing"

\* Two requests hold the read side at once, a create and a replace, both
\* at their Stream Manager call.
C17_Witness ==
  \E r1, r2 \in Reqs :
    /\ op[r1] = "create" /\ ~IsBackground(r1)
    /\ pc[r1] = "create_streaming_job"
    /\ op[r2] = "replace" /\ pc[r2] = "replace_table"
    /\ {r1, r2} \subseteq readers
    /\ resched = "waiting"

\* The validation or registration step the job of a create request takes
\* after its build, "" if it takes none.
ExpectedValidation(j) ==
  IF j.variant = "Source" \/ (j.variant = "Table" /\ j.src)
    THEN <<"register_source">>
  ELSE IF j.variant = "Table" /\ j.cdc THEN <<"validate_cdc_table">>
  ELSE IF j.variant = "Sink" /\ ~j.target THEN <<"validate_sink">>
  ELSE <<>>

\* The steps of a create request for job j in the order of C18; activation
\* and commit of a Background job are those of its detached future.
StepOrder(j) ==
  <<"create_job_catalog">>
    \o (IF j.variant \in {"Table", "Source"}
          THEN <<"source_id_propagation">> ELSE <<>>)
    \o <<"acquire_permit", "reschedule_lock_read", "StreamFragmentGraph_new",
         "create_internal_table_catalog", "refill_internal_table_ids",
         "build_stream_job">>
    \o ExpectedValidation(j)
    \o <<"prepare_streaming_job">>
    \o (IF j.create_type = "Background"
          THEN <<"bg_create_streaming_job", "bg_finish_streaming_job">>
          ELSE <<"create_streaming_job", "finish_streaming_job">>)

\* The calls of r that are steps of the creation, compensation left out.
StepsTaken(r) ==
  LET IsStep(e) ==
        e[1] \notin {"try_abort_creating_streaming_job", "unregister_sources"}
  IN SelectSeq(log[r], IsStep)

\* C18: the steps a create request has taken are an initial part of the
\* step order of its job, each once, and every step but the last taken has
\* succeeded; the permit is held whenever the read hold is.
C18_StepOrdering ==
  \A r \in Reqs :
    op[r] = "create" =>
      LET taken == StepsTaken(r)
          order == StepOrder(job[r])
      IN /\ Len(taken) <= Len(order)
         /\ \A i \in 1..Len(taken) :
              /\ taken[i][1] = order[i]
              /\ i < Len(taken) => taken[i][2] = "ok"
         /\ r \in readers => r \in permitHeld

C18_Witness ==
  \E r \in Reqs :
    /\ CreateDone(r)
    /\ job[r].variant = "Table" /\ job[r].src
    /\ ~IsBackground(r)
    /\ ret[r].tag = "ok"
    /\ StepsTaken(r) = [i \in 1..Len(StepOrder(job[r])) |->
                         Ev(StepOrder(job[r])[i], "ok")]

\* The request r is not inside its request function.
Outside(r) == pc[r] \in {"absent", "idle", "done"}

\* C19: a request that has returned holds neither an admission permit nor
\* the read side of the reschedule lock; every permit missing from the
\* semaphore is held by a request; and when no request is inside its
\* function all NumPermits permits are free and the lock has no reader.
C19_NoGuardLeak ==
  /\ \A r \in Reqs :
       Outside(r) => r \notin permitHeld /\ r \notin readers
  /\ permits + Cardinality(permitHeld) = NumPermits
  /\ (\A r \in Reqs : Outside(r)) => permits = NumPermits /\ readers = {}

\* Both requests are back: a create by the Background sentinel and another
\* by an error after its compensation.
C19_Witness ==
  \E r1, r2 \in Reqs :
    /\ CreateDone(r1) /\ IsBackground(r1)
    /\ ret[r1] = RetOk(IGNORED_NOTIFICATION_VERSION)
    /\ CreateDone(r2) /\ ret[r2].tag = "err"
    /\ Did(r2, "unregister_sources", "ok")
    /\ \A r \in Reqs : Outside(r)
    /\ permits = NumPermits

\* The request r waits for an admission permit or for the read side.
Waiting(r) ==
  pc[r] \in {"acquire_permit", "reschedule_lock_read", "r_reschedule_lock_read"}

\* C20: under the fairness of SpecFair a rescheduling that waits for the
\* write side of the reschedule lock eventually holds it, and every request
\* that waits for an admission permit or for the read side eventually
\* returns.
C20_Progress ==
  /\ (resched = "waiting") ~> (resched = "writing")
  /\ \A r \in Reqs : Waiting(r) ~> (pc[r] = "done")

\* A rescheduling waits behind a reader while a create request waits for
\* the permit that reader holds.
C20_Witness ==
  \E r1, r2 \in Reqs :
    /\ r1 \in readers /\ r1 \in permitHeld
    /\ pc[r2] = "acquire_permit"
    /\ permits = 0
    /\ resched = "waiting"

\* C21: a replace request never waits for an admission permit and never
\* holds one; its build, prepare and swap steps can be taken whatever the
\* number of free permits; the permits missing from the semaphore are all
\* held by create requests, so a replace is not counted against the
\* admission bound.
C21_ReplaceTakesNoPermit ==
  /\ \A r \in Reqs :
       op[r] = "replace" =>
         /\ pc[r] # "acquire_permit"
         /\ r \notin permitHeld
         /\ ~Did(r, "acquire_permit", "ok")
         /\ pc[r] = "build_replace_table" =>
              ENABLED BuildReplaceTable(r, TRUE)
         /\ pc[r] = "r_prepare_streaming_job" =>
              ENABLED ReplacePrepare(r, TRUE)
         /\ pc[r] = "replace_table" => ENABLED ReplaceTable(r, TRUE)
  /\ \A r \in permitHeld : op[r] = "create"
  /\ permits = NumPermits - Cardinality({r \in Reqs : r \in permitHeld
                                                      /\ op[r] = "create"})

\* Every permit is held by a create request that is still at work, and a
\* replace request has built, prepared and swapped and is at its commit.
C21_Witness ==
  \E r1, r2 \in Reqs :
    /\ permits = 0
    /\ op[r1] = "create" /\ r1 \in permitHeld
    /\ pc[r1] = "StreamFragmentGraph_new"
    /\ op[r2] = "replace"
    /\ pc[r2] = "finish_replace_streaming_job"
    /\ Did(r2, "build_replace_table", "ok")
    /\ Did(r2, "prepare_streaming_job", "ok")
    /\ Did(r2, "replace_table", "ok")

====
